---------------------------- MODULE Spec2Model ----------------------------
(***************************************************************************)
(* Model of src/Untitled32.py: the loan amortization calculator.           *)
(*                                                                         *)
(* The state machine follows one press of the "Calculate Amortization"     *)
(* button: the validation on line 177, the call of                         *)
(* calculate_amortization_schedule with the extra payment (lines 181-182), *)
(* the call without it (lines 185-186) and the comparison figures          *)
(* (lines 201-202).  Inside the function every pass of the while loop      *)
(* (lines 147-170) is one step.                                            *)
(*                                                                         *)
(* Numbers: the program computes with Python floats.  The model computes   *)
(* with exact rationals <<numerator, denominator>> in lowest terms, so the *)
(* rounding error of binary64 is not part of the model; everything the     *)
(* model shows is what the algorithm does in exact arithmetic.             *)
(***************************************************************************)
EXTENDS Integers, Sequences, FiniteSets, TLC

(***************************************************************************)
(* Exact rational arithmetic (the float operators of the source).          *)
(***************************************************************************)
Abs(x) == IF x < 0 THEN -x ELSE x

RECURSIVE GCD(_, _)
GCD(a, b) == IF b = 0 THEN a ELSE GCD(b, a % b)

\* n/d in lowest terms with a positive denominator (d # 0)
Rat(n, d) ==
    LET g == GCD(Abs(n), Abs(d))
        s == IF d < 0 THEN -1 ELSE 1
    IN  <<(s * n) \div g, (s * d) \div g>>

Int2Rat(i) == <<i, 1>>
Zero == Int2Rat(0)
One == Int2Rat(1)

\* sums and comparisons go through the least common denominator
LCM(a, b) == (a \div GCD(a, b)) * b
Scaled(a, l) == a[1] * (l \div a[2])
RAdd(a, b) ==
    LET l == LCM(a[2], b[2]) IN Rat(Scaled(a, l) + Scaled(b, l), l)
RSub(a, b) ==
    LET l == LCM(a[2], b[2]) IN Rat(Scaled(a, l) - Scaled(b, l), l)
\* cross-cancel before multiplying, to keep the intermediate products small
RMul(a, b) ==
    LET g1 == GCD(Abs(a[1]), b[2])
        g2 == GCD(Abs(b[1]), a[2])
    IN  Rat((a[1] \div g1) * (b[1] \div g2), (a[2] \div g2) * (b[2] \div g1))
\* b # 0
RDiv(a, b) == RMul(a, IF b[1] < 0 THEN <<-b[2], -b[1]>> ELSE <<b[2], b[1]>>)
RLt(a, b) ==
    LET l == LCM(a[2], b[2]) IN Scaled(a, l) < Scaled(b, l)
RGt(a, b) == RLt(b, a)
RLe(a, b) == ~RLt(b, a)

RECURSIVE RPow(_, _)
\* a ** k for an integer k >= 0
RPow(a, k) == IF k = 0 THEN One ELSE RMul(a, RPow(a, k - 1))

(***************************************************************************)
(* Bounds of the model and the inputs drawn within them.                   *)
(***************************************************************************)
\* term_years is drawn from -1 .. MaxTermYears
MaxTermYears == 3
\* a loan with a nonzero rate is drawn only with at most this many periods
\* (the powers (1 + periodic_rate)^n stay small)
MaxCompoundPeriods == 4

\* The widgets of lines 98-107 refuse some of these values (min_value); the
\* validation of line 177 and the function take any value, and so does the
\* model.  Amounts: -1, 0, one cent, four cents, 1, 1000; rates in percent
\* per year (200 and 400 keep the periodic rates 1/2, 1, 2 and 4, whose
\* powers stay within TLC's integers); the extra payments: -1, 0, 0.49,
\* 499.99, 1000.
Principals == {Int2Rat(-1), Zero, Rat(1, 100), Rat(1, 25), One, Int2Rat(1000)}
AnnualRates == {Int2Rat(-1), Zero, Int2Rat(200), Int2Rat(400)}
TermYears == -1 .. MaxTermYears
Frequencies == {"Monthly", "Bi-Weekly", "Quarterly", "Annually", "Weekly"}
ExtraPayments == {Int2Rat(-1), Zero, Rat(49, 100), Rat(49999, 100), Int2Rat(1000)}

VARIABLES
    \* the sidebar inputs (lines 98-107)
    principal, annual_rate, term_years, payment_frequency, extra_payment,
    \* where the script is: "sidebar", "idle", "call", "loop", "summary",
    \* "done"
    pc,
    \* which of the two invocations is running: "with_extra", "no_extra"
    invocation,
    \* locals of calculate_amortization_schedule (lines 127-145)
    periodic_rate, total_payments_periods, base_periodic_payment,
    total_periodic_payment, schedule_data, current_balance,
    total_interest_paid, total_principal_paid, payment_number, max_iterations,
    \* what the two calls returned (lines 181-186)
    result_with_extra, result_no_extra,
    \* what the script showed: "none", "InvalidParameter" (st.error),
    \* "UnboundLocalError" (line 127), "ok" (the summary metrics)
    outcome,
    \* the comparison figures (lines 201-202)
    interest_saved, duration_reduced

inputs == <<principal, annual_rate, term_years, payment_frequency, extra_payment>>
locals == <<periodic_rate, total_payments_periods, base_periodic_payment,
            total_periodic_payment, schedule_data, current_balance,
            total_interest_paid, total_principal_paid, payment_number,
            max_iterations>>
results == <<result_with_extra, result_no_extra>>
shown == <<outcome, interest_saved, duration_reduced>>
vars == <<inputs, pc, invocation, locals, results, shown>>


(***************************************************************************)
(* calculate_amortization_schedule, lines 112-173.                         *)
(***************************************************************************)
\* the if/elif chain of lines 118-125 binds payments_per_year for these only
Recognized(f) == f \in {"Monthly", "Bi-Weekly", "Quarterly", "Annually"}

PaymentsPerYear(f) ==
    CASE f = "Monthly" -> 12
      [] f = "Bi-Weekly" -> 26
      [] f = "Quarterly" -> 4
      [] f = "Annually" -> 1

\* line 127
PeriodicRate(rate, f) ==
    RDiv(RDiv(rate, Int2Rat(100)), Int2Rat(PaymentsPerYear(f)))

\* line 128
TotalPaymentsPeriods(years, f) == years * PaymentsPerYear(f)

\* (mutant) the zero-rate branch divides with // instead of /
BasePeriodicPayment_FloorDivision(p, r, n) ==
    IF r = Zero
    THEN Int2Rat(RDiv(p, Int2Rat(n))[1] \div RDiv(p, Int2Rat(n))[2])
    ELSE LET q == RPow(RAdd(One, r), n)
         IN  RDiv(RMul(p, RMul(r, q)), RSub(q, One))

\* lines 131-134
BasePeriodicPayment(p, r, n) ==
    IF r = Zero
    THEN RDiv(p, Int2Rat(n))
    ELSE LET q == RPow(RAdd(One, r), n)
         IN  RDiv(RMul(p, RMul(r, q)), RSub(q, One))

\* line 136
TotalPeriodicPayment(base, extra) == RAdd(base, extra)

\* line 145
FallbackIterations == 10000
\* (mutant) a ceiling of three times the nominal periods
MaxIterations_Triple(n) == IF n > 0 THEN n * 3 ELSE FallbackIterations
MaxIterations(n) == IF n > 0 THEN n * 2 ELSE FallbackIterations

\* the balance below which the loop treats the loan as paid off (line 147)
BalanceThreshold == Rat(1, 100)

\* (mutant) the last arguments of the two calls exchanged
ExtraArgument_Exchanged ==
    IF invocation = "with_extra" THEN Zero ELSE extra_payment
\* the extra_payment argument of the running call (lines 182 and 186)
ExtraArgument == IF invocation = "with_extra" THEN extra_payment ELSE Zero

\* line 147
LoopCondition ==
    /\ RGt(current_balance, BalanceThreshold)
    /\ payment_number < max_iterations

\* line 149
InterestForPeriod == RMul(current_balance, periodic_rate)
\* (mutant) the operands of line 150 swapped
PrincipalForPeriod_Swapped == RSub(InterestForPeriod, total_periodic_payment)
\* line 150
PrincipalForPeriod == RSub(total_periodic_payment, InterestForPeriod)
\* (mutant) the comparison of line 153 reversed
Overpays_Reversed == RGt(current_balance, PrincipalForPeriod)
\* line 153
Overpays == RLt(current_balance, PrincipalForPeriod)

\* (mutant) line 154 left out: the recorded principal part is not clamped
PrincipalPaid_Unclamped == PrincipalForPeriod
\* lines 150-154: the principal part, the whole balance when it would overpay
PrincipalPaid == IF Overpays THEN current_balance ELSE PrincipalForPeriod
\* line 156: the last payment is the remaining principal plus the interest
PaymentAmount ==
    IF Overpays
    THEN RAdd(PrincipalPaid, InterestForPeriod)
    ELSE total_periodic_payment
\* (mutant) line 157 left out: the clamp does not clear the balance
NewBalance_NoReset ==
    IF Overpays THEN current_balance ELSE RSub(current_balance, PrincipalPaid)
\* lines 157-159
NewBalance ==
    IF Overpays THEN Zero ELSE RSub(current_balance, PrincipalPaid)

\* lines 164-170
Record(no, amount, princ, interest, balance) ==
    [payment_no |-> no, payment_amount |-> amount, principal_paid |-> princ,
     interest_paid |-> interest, remaining_balance |-> balance]

\* line 173
Result(schedule, base, interest, periods) ==
    [df_schedule |-> schedule, base_periodic_payment |-> base,
     total_interest_paid |-> interest, payment_number |-> periods]

NoResult == Result(<<>>, Zero, Zero, 0)

(***************************************************************************)
(* The inputs and the initial state.                                       *)
(***************************************************************************)
\* the loans the model draws: every combination, a nonzero rate only with
\* at most MaxCompoundPeriods periods
Drawn(p, rate, years, f, extra) ==
    IF ~Recognized(f) \/ RLe(rate, Zero)
    THEN TRUE
    ELSE years * PaymentsPerYear(f) <= MaxCompoundPeriods

\* lines 98-107: the widgets start at their default values
Init ==
    /\ principal = Int2Rat(200000)
    /\ annual_rate = Rat(9, 2)
    /\ term_years = 30
    /\ payment_frequency = "Monthly"
    /\ extra_payment = Zero
    /\ pc = "sidebar"
    /\ invocation = "with_extra"
    /\ periodic_rate = Zero
    /\ total_payments_periods = 0
    /\ base_periodic_payment = Zero
    /\ total_periodic_payment = Zero
    /\ schedule_data = <<>>
    /\ current_balance = Zero
    /\ total_interest_paid = Zero
    /\ total_principal_paid = Zero
    /\ payment_number = 0
    /\ max_iterations = 0
    /\ result_with_extra = NoResult
    /\ result_no_extra = NoResult
    /\ outcome = "none"
    /\ interest_saved = Zero
    /\ duration_reduced = 0

(***************************************************************************)
(* The steps.                                                              *)
(***************************************************************************)
\* lines 98-107: the loan details are entered in the sidebar.  The model
\* presses the button only on a drawn loan, never on the defaults (a loan of
\* 360 periods at 4.5%).
EnterLoanDetails ==
    /\ pc = "sidebar"
    /\ \E p \in Principals, rate \in AnnualRates, years \in TermYears,
          f \in Frequencies, extra \in ExtraPayments :
           /\ Drawn(p, rate, years, f, extra)
           /\ principal' = p
           /\ annual_rate' = rate
           /\ term_years' = years
           /\ payment_frequency' = f
           /\ extra_payment' = extra
    /\ pc' = "idle"
    /\ UNCHANGED <<invocation, locals, results, shown>>

\* (mutant) principal < 0 instead of principal <= 0
ValidationFails_StrictPrincipal ==
    \/ RLt(principal, Zero)
    \/ RLt(annual_rate, Zero)
    \/ term_years <= 0

\* line 177
ValidationFails ==
    \/ RLe(principal, Zero)
    \/ RLt(annual_rate, Zero)
    \/ term_years <= 0

\* lines 176-179: the button is pressed; invalid values end in st.error
Calculate ==
    /\ pc = "idle"
    /\ IF ValidationFails
       THEN /\ outcome' = "InvalidParameter"
            /\ pc' = "done"
       ELSE /\ outcome' = outcome
            /\ pc' = "call"
    /\ UNCHANGED <<inputs, invocation, locals, results, interest_saved,
                   duration_reduced>>

\* lines 112-145: the function is entered; with a frequency none of the
\* branches of lines 118-125 names, line 127 reads an unbound
\* payments_per_year and the call ends in UnboundLocalError
Enter ==
    /\ pc = "call"
    /\ IF ~Recognized(payment_frequency)
       THEN /\ outcome' = "UnboundLocalError"
            /\ pc' = "done"
            /\ UNCHANGED locals
       ELSE LET r == PeriodicRate(annual_rate, payment_frequency)
                n == TotalPaymentsPeriods(term_years, payment_frequency)
                base == BasePeriodicPayment(principal, r, n)
            IN  /\ periodic_rate' = r
                /\ total_payments_periods' = n
                /\ base_periodic_payment' = base
                /\ total_periodic_payment' = TotalPeriodicPayment(base, ExtraArgument)
                /\ schedule_data' = <<>>
                /\ current_balance' = principal
                /\ total_interest_paid' = Zero
                /\ total_principal_paid' = Zero
                /\ payment_number' = 0
                /\ max_iterations' = MaxIterations(n)
                /\ outcome' = outcome
                /\ pc' = "loop"
    /\ UNCHANGED <<inputs, invocation, results, interest_saved, duration_reduced>>

\* lines 147-170: one pass of the while loop
LoopBody ==
    /\ pc = "loop"
    /\ LoopCondition
    /\ payment_number' = payment_number + 1
    /\ total_periodic_payment' = PaymentAmount
    /\ current_balance' = NewBalance
    /\ total_interest_paid' = RAdd(total_interest_paid, InterestForPeriod)
    /\ total_principal_paid' = RAdd(total_principal_paid, PrincipalPaid)
    /\ schedule_data' =
           Append(schedule_data,
                  Record(payment_number + 1, PaymentAmount, PrincipalPaid,
                         InterestForPeriod, NewBalance))
    /\ UNCHANGED <<inputs, pc, invocation, periodic_rate, total_payments_periods,
                   base_periodic_payment, max_iterations, results, shown>>

\* lines 172-173 with the assignment of line 181 or line 185
Return ==
    /\ pc = "loop"
    /\ ~LoopCondition
    /\ LET r == Result(schedule_data, base_periodic_payment,
                       total_interest_paid, payment_number)
       IN  IF invocation = "with_extra"
           THEN /\ result_with_extra' = r
                /\ result_no_extra' = result_no_extra
                /\ invocation' = "no_extra"
                /\ pc' = "call"
           ELSE /\ result_no_extra' = r
                /\ result_with_extra' = result_with_extra
                /\ invocation' = invocation
                /\ pc' = "summary"
    /\ UNCHANGED <<inputs, locals, shown>>

\* (mutant) the operands of line 201 swapped
InterestSaved_Reversed ==
    RSub(result_with_extra.total_interest_paid,
         result_no_extra.total_interest_paid)
\* line 201
InterestSaved ==
    RSub(result_no_extra.total_interest_paid,
         result_with_extra.total_interest_paid)
\* line 202
DurationReduced ==
    result_no_extra.payment_number - result_with_extra.payment_number

\* lines 188-206: the metrics and the comparison figures
Summary ==
    /\ pc = "summary"
    /\ outcome' = "ok"
    /\ interest_saved' = InterestSaved
    /\ duration_reduced' = DurationReduced
    /\ pc' = "done"
    /\ UNCHANGED <<inputs, invocation, locals, results>>

Next == EnterLoanDetails \/ Calculate \/ Enter \/ LoopBody \/ Return \/ Summary

Spec == Init /\ [][Next]_vars

(***************************************************************************)
(* What the claims speak of.                                               *)
(***************************************************************************)
\* the inputs the engine's contract calls valid
ValidLoan ==
    /\ RGt(principal, Zero)
    /\ RLe(Zero, annual_rate)
    /\ term_years > 0
    /\ Recognized(payment_frequency)
ValidInput == ValidLoan /\ RLe(Zero, extra_payment)

\* the call with the extra payment has returned (line 181 has assigned)
ReturnedWithExtra == invocation = "no_extra"
\* the call without it has returned (line 185 has assigned)
ReturnedNoExtra == invocation = "no_extra" /\ pc \in {"summary", "done"}

RECURSIVE SumPrincipal(_)
SumPrincipal(schedule) ==
    IF schedule = <<>>
    THEN Zero
    ELSE RAdd(schedule[1].principal_paid, SumPrincipal(Tail(schedule)))

\* the balance before record i of a schedule of a loan of p
BalanceBefore(p, schedule, i) ==
    IF i = 1 THEN p ELSE schedule[i - 1].remaining_balance

\* the schedule ends at balance 0 and its principal parts add up to p
Conserves(p, schedule) ==
    /\ schedule # <<>>
    /\ schedule[Len(schedule)].remaining_balance = Zero
    /\ SumPrincipal(schedule) = p

NominalPeriods == term_years * PaymentsPerYear(payment_frequency)

(* C1: for every valid input the returned schedule ends with a record whose
   remaining balance is exactly 0 and the principal components sum to the
   principal (the loop never stops, at the ceiling or at the 0.01
   threshold, with a positive balance left). *)
C1_Conservation ==
    (ValidInput /\ ReturnedWithExtra)
        => Conserves(principal, result_with_extra.df_schedule)

(* C2: each of principal <= 0, annual_rate < 0, term_years <= 0 or a payment
   frequency outside the four recognized ones ends in an error that is
   surfaced before any computation begins: the loop is never entered, no
   schedule record exists, neither call returns and no summary metric is
   produced. *)
InvalidInput == ~ValidLoan
ErrorOutcomes == {"InvalidParameter", "UnboundLocalError"}
C3_ExtraShortens ==
    (outcome = "ok" /\ RLe(Zero, extra_payment)) =>
        /\ result_with_extra.payment_number <= result_no_extra.payment_number
        /\ result_with_extra.payment_number = result_no_extra.payment_number
               => extra_payment = Zero

(* C3, amended: for the same loan and any extra payment E >= 0, the periods
   to payoff with E are at most the periods to payoff without it (they can
   be equal with E > 0, when the extra payment only shrinks the last
   payment). *)
C3_ExtraNeverLengthens ==
    (outcome = "ok" /\ RLe(Zero, extra_payment)) =>
        result_with_extra.payment_number <= result_no_extra.payment_number
C3_Witness ==
    /\ outcome = "ok"
    /\ RGt(extra_payment, Zero)
    /\ result_with_extra.payment_number = result_no_extra.payment_number
    /\ result_no_extra.payment_number > 1

(* C4: the payment loop always terminates, and the periods to payoff a call
   returns are at most 2 * term_years * payments_per_year when that product
   is positive, and at most 10000 otherwise.  Stated on the steps: every
   pass of the loop counts payment_number up by one and leaves it at most
   the ceiling (so there are at most that many passes), and what a call
   returns is at most the ceiling. *)
PeriodCeiling == IF NominalPeriods > 0 THEN 2 * NominalPeriods ELSE 10000
C4_Bounded ==
    /\ pc = "loop" => payment_number <= PeriodCeiling
    /\ ReturnedWithExtra => result_with_extra.payment_number <= PeriodCeiling
    /\ ReturnedNoExtra => result_no_extra.payment_number <= PeriodCeiling
C4_Step ==
    /\ (pc = "loop" /\ pc' = "loop") => payment_number' = payment_number + 1
    /\ C4_Bounded'
C4_TerminatesBounded == [][C4_Step]_vars
C4_Witness ==
    /\ ReturnedWithExtra
    /\ result_with_extra.payment_number = 2 * NominalPeriods
    /\ RGt(current_balance, BalanceThreshold)

(* C5: when annual_rate is 0 and extra_payment is 0, every record except
   the final one has principal component principal / nominal_total_periods
   and interest component 0, and the periods to payoff equal
   nominal_total_periods = term_years * payments_per_year. *)
EvenShare == RDiv(principal, Int2Rat(NominalPeriods))
Linear(result) ==
    /\ \A i \in 1 .. Len(result.df_schedule) - 1 :
           /\ result.df_schedule[i].principal_paid = EvenShare
           /\ result.df_schedule[i].interest_paid = Zero
    /\ result.payment_number = NominalPeriods
ZeroRateNoExtra ==
    /\ ValidInput
    /\ annual_rate = Zero
    /\ extra_payment = Zero
    /\ ReturnedWithExtra
FirstInterest ==
    RMul(principal, PeriodicRate(annual_rate, payment_frequency))
PaysOffAtOnce ==
    /\ ReturnedWithExtra
    /\ RGt(RAdd(result_with_extra.base_periodic_payment, extra_payment),
           RAdd(principal, FirstInterest))
SingleClampedRecord(schedule) ==
    /\ Len(schedule) = 1
    /\ schedule[1].remaining_balance = Zero
    /\ schedule[1].principal_paid = principal
    /\ schedule[1].payment_amount = RAdd(principal, FirstInterest)
NonIncreasing(schedule) ==
    \A i \in 1 .. Len(schedule) :
        /\ RLe(schedule[i].remaining_balance, BalanceBefore(principal, schedule, i))
        /\ RLe(Zero, schedule[i].remaining_balance)
Chained(schedule) ==
    \A i \in 1 .. Len(schedule) :
        schedule[i].remaining_balance
            = RSub(BalanceBefore(principal, schedule, i), schedule[i].principal_paid)
C8_BalanceChain ==
    /\ ReturnedWithExtra => Chained(result_with_extra.df_schedule)
    /\ ReturnedNoExtra => Chained(result_no_extra.df_schedule)
C8_Witness ==
    /\ ValidInput
    /\ ReturnedWithExtra
    /\ Len(result_with_extra.df_schedule) >= 2
    /\ result_with_extra.df_schedule[Len(result_with_extra.df_schedule)].payment_amount
           # RAdd(result_with_extra.base_periodic_payment, extra_payment)

(* C9: the early-payoff clamp is taken at most once per computation and only
   in the last pass of the loop: every record before the last has payment
   amount base_periodic_payment + extra_payment, and whenever another pass
   is about to run, no record so far is a clamped one (one whose principal
   component is the whole balance before it), every record so far has that
   payment amount and total_periodic_payment still has that value. *)
NominalPayment == RAdd(base_periodic_payment, ExtraArgument)
PaysWholeBalance(schedule, i) ==
    schedule[i].principal_paid = BalanceBefore(principal, schedule, i)
C9_ClampOnlyLast ==
    pc = "loop" =>
        /\ \A i \in 1 .. Len(schedule_data) - 1 :
               schedule_data[i].payment_amount = NominalPayment
        /\ LoopCondition =>
               /\ total_periodic_payment = NominalPayment
               /\ \A i \in 1 .. Len(schedule_data) :
                      /\ schedule_data[i].payment_amount = NominalPayment
                      /\ ~PaysWholeBalance(schedule_data, i)
C9_Witness ==
    /\ pc = "loop"
    /\ ValidInput
    /\ Len(schedule_data) >= 3
    /\ PaysWholeBalance(schedule_data, Len(schedule_data))
    /\ schedule_data[Len(schedule_data)].payment_amount # NominalPayment
    /\ total_periodic_payment # NominalPayment

(* C10: for the same loan and any extra payment E >= 0, the total interest
   paid with E is at most the total interest paid without it, so the
   interest_saved and duration_reduced figures are never negative. *)
C10_SavingsNonNegative ==
    (outcome = "ok" /\ RLe(Zero, extra_payment)) =>
        /\ RLe(result_with_extra.total_interest_paid,
               result_no_extra.total_interest_paid)
        /\ RLe(Zero, interest_saved)
        /\ duration_reduced >= 0
C10_Witness ==
    /\ outcome = "ok"
    /\ RGt(extra_payment, Zero)
    /\ RGt(interest_saved, Zero)
    /\ duration_reduced > 0

=============================================================================
